---- MODULE Spec2Model ----
(***************************************************************************)
(* A model of mm.c, the segregated-free-list allocator.                    *)
(*                                                                         *)
(* The heap is a word-addressed memory: mem maps the byte address of an    *)
(* 8-byte word to the value stored there.  Only words that were written    *)
(* are in DOMAIN mem; a read of any other word of the heap returns the     *)
(* value junk, which every public call draws afresh (memory handed out by  *)
(* the page provider is not initialised).  Block pointers, list links,     *)
(* headers and footers are all plain words, as in the C code, so a stale   *)
(* link or a header written inside an old payload is read back as is.      *)
(*                                                                         *)
(* The words the allocator does not own or no longer uses (the payload a   *)
(* caller receives, the inside of a free block beyond its links and        *)
(* footer) are dropped from mem when a public call returns: their content  *)
(* is whatever a caller stored there, so reading one returns junk as well. *)
(*                                                                         *)
(* Every C function is an operator from a heap record                      *)
(*   h = [mem, fl, hs, brk, max, junk, fault]                              *)
(* to a heap record (or to a record [h, r] when it also returns a value).  *)
(* fl is free_list_start, hs is heap_start, brk and max are the provider's *)
(* break and limit.                                                        *)
(***************************************************************************)
EXTENDS Integers, Sequences, FiniteSets, TLC

VARIABLES mem,              \* heap words: byte address -> word
          free_list_start,  \* bucket heads, 0..13 -> block pointer or NULL
          heap_start,       \* pointer to the first block (NULL before mm_init)
          mem_brk,          \* first byte after the heap (page provider)
          mem_max_addr,     \* the address the provider refuses to grow beyond
          fault,            \* a store went outside the heap
          live,             \* the payload pointers returned and not yet released
          reissued,         \* a call returned a pointer that was still live
          calls,            \* the number of calls (and stores) the caller made
          trace,            \* whether caller data, lastop and ret are recorded
          lastop,           \* the last public call and its arguments
          ret,              \* what the last public call returned
          plan              \* the calls a scripted caller has still to make

vars == <<mem, free_list_start, heap_start, mem_brk, mem_max_addr, fault,
          live, reissued, calls, trace, lastop, ret, plan>>

-----------------------------------------------------------------------------
(* Basic constants, mm.c 88-156 *)

NULL == 0

wsize == 8

dsize == 2 * wsize

min_block_size == dsize

chunksize == 4096

searchtime == 16

alloc_mask == 7

alloc_mask_curr == 1

min_mask == 4

free_16 == 16

free_32 == 32

free_48 == 48

free_64 == 64

free_128 == 128

free_256 == 256

free_512 == 512

free_1024 == 1024

free_2048 == 2048

free_4096 == 4096

free_8192 == 8192

free_16384 == 16384

free_32768 == 32768

free_size == 14

(* size_t, word_t and pointer arithmetic wraps at WordMod.  TLC's integers *)
(* are 32 bits wide, so the 64-bit word is scaled to 30 bits: every sum of *)
(* two words still fits, and a request within 8 of WordMod wraps as in C.  *)
WordMod == 2 ^ 30

\* the pointer -1 that mem_sbrk returns when it refuses
SBRK_FAILED == 0 - 1

(* The address mem_sbrk hands out first (mem_heap_lo), a multiple of 16. *)
HeapLo == 4096

(* offsetof(block_t, next), offsetof(block_t, prev): struct block, 161-172 *)
NextOff == wsize

PrevOff == 2 * wsize

-----------------------------------------------------------------------------
(* Memory access *)

InHeap(h, a) == a >= HeapLo /\ a + wsize <= h.brk /\ a % wsize = 0

Rd(h, a) == IF a \in DOMAIN h.mem THEN h.mem[a] ELSE h.junk

Wr(h, a, v) ==
    IF InHeap(h, a)
    THEN [h EXCEPT !.mem = (a :> v) @@ h.mem]
    ELSE [h EXCEPT !.fault = TRUE]

SetList(h, i, b) == [h EXCEPT !.fl[i] = b]

\* No walk over distinct blocks is longer than this: every block visited has
\* a header that was written, or is the one block read from unwritten words.
Fuel(h) == Cardinality(DOMAIN h.mem) + 1

-----------------------------------------------------------------------------
(* Short helper functions, mm.c 223-410 *)

max(x, y) == IF x > y THEN x ELSE y

round_up(size, n) == (n * (((size + (n - 1)) % WordMod) \div n)) % WordMod

B2N(b) == IF b THEN 1 ELSE 0

Bit(w, k) == (w \div (2 ^ k)) % 2

\* bitwise OR of the three low bits of two words
Or3(a, b) ==
    max(Bit(a, 0), Bit(b, 0)) + 2 * max(Bit(a, 1), Bit(b, 1))
        + 4 * max(Bit(a, 2), Bit(b, 2))

pack(size, alloc_prev, alloc_curr, min_block) ==
    (size - (size % 8))
        + Or3(size % 8, B2N(alloc_curr) + 2 * B2N(alloc_prev) + 4 * B2N(min_block))

extract_size(word) == word - (word % 16)

get_size(h, block) == extract_size(Rd(h, block))

payload_to_header(bp) == bp - wsize

\* header_to_payload with a fault seeded: the payload starts a word late
header_to_payload_late(block) == block + dsize
header_to_payload(block) == block + wsize

\* header_to_footer with a fault seeded: the footer lies a word too far
header_to_footer_far(h, block) == (block + get_size(h, block)) % WordMod
header_to_footer(h, block) ==
    (block + wsize + get_size(h, block) - dsize) % WordMod

footer_to_header(h, footer) ==
    (footer + wsize - extract_size(Rd(h, footer))) % WordMod

extract_alloc(word) == word % (alloc_mask + 1)

get_alloc(h, block, prev) ==
    LET alloc_status == extract_alloc(Rd(h, block))
    IN  IF prev THEN (alloc_status \div 2) % 2 = 1
                ELSE alloc_status % 2 = 1

is_minblock(h, block) == extract_alloc(Rd(h, block)) \div 4 # 0

get_prev_alloc(h, block) == get_alloc(h, block, TRUE)

get_payload_size(h, block) ==
    LET asize == get_size(h, block)
    IN  IF asize = min_block_size THEN wsize
        ELSE IF get_alloc(h, block, FALSE) THEN asize - wsize
        ELSE asize - dsize

\* write_epilogue with a fault seeded: bit 1 is always set
write_epilogue_set(h, block, prev) == Wr(h, block, pack(0, TRUE, TRUE, FALSE))

write_epilogue(h, block, prev) == Wr(h, block, pack(0, prev, TRUE, FALSE))

\* get_free_list with a fault seeded: every bound compared with < for <=
get_free_list_strict(size) ==
    IF size < free_16 THEN 0
    ELSE IF size < free_32 THEN 1
    ELSE IF size < free_48 THEN 2
    ELSE IF size < free_64 THEN 3
    ELSE IF size < free_128 THEN 4
    ELSE IF size < free_256 THEN 5
    ELSE IF size < free_512 THEN 6
    ELSE IF size < free_1024 THEN 7
    ELSE IF size < free_2048 THEN 8
    ELSE IF size < free_4096 THEN 9
    ELSE IF size < free_8192 THEN 10
    ELSE IF size < free_16384 THEN 11
    ELSE IF size < free_32768 THEN 12
    ELSE 13

get_free_list(size) ==
    IF size <= free_16 THEN 0
    ELSE IF size <= free_32 THEN 1
    ELSE IF size <= free_48 THEN 2
    ELSE IF size <= free_64 THEN 3
    ELSE IF size <= free_128 THEN 4
    ELSE IF size <= free_256 THEN 5
    ELSE IF size <= free_512 THEN 6
    ELSE IF size <= free_1024 THEN 7
    ELSE IF size <= free_2048 THEN 8
    ELSE IF size <= free_4096 THEN 9
    ELSE IF size <= free_8192 THEN 10
    ELSE IF size <= free_16384 THEN 11
    ELSE IF size <= free_32768 THEN 12
    ELSE 13

-----------------------------------------------------------------------------
(* The free-list directory, mm.c 460-618 *)

(* A heap that is the result of earlier stores is always handed on as an    *)
(* operator argument, so that it is computed once however often it is read. *)

\* insert_free_basic with a fault seeded: old_start->prev is not updated
insert_free_basic_oneway(h, block, i) ==
    IF h.fl[i] = NULL
    THEN SetList(Wr(Wr(h, block + PrevOff, block), block + NextOff, block),
                 i, block)
    ELSE LET old_start == h.fl[i]
             old_end   == Rd(h, old_start + PrevOff)
         IN  SetList(Wr(Wr(Wr(h, block + PrevOff, old_end),
                           old_end + NextOff, block),
                        block + NextOff, old_start),
                     i, block)

insert_free_basic(h, block, i) ==
    IF h.fl[i] = NULL
    THEN SetList(Wr(Wr(h, block + PrevOff, block), block + NextOff, block),
                 i, block)
    ELSE LET old_start == h.fl[i]
             old_end   == Rd(h, old_start + PrevOff)
         IN  SetList(Wr(Wr(Wr(Wr(h, block + PrevOff, old_end),
                              old_end + NextOff, block),
                           block + NextOff, old_start),
                        old_start + PrevOff, block),
                     i, block)

\* insert_free_mini with a fault seeded: the old head is not linked
insert_free_mini_alone(h, block, i) ==
    SetList(Wr(h, block + NextOff, block), i, block)
insert_free_mini(h, block, i) ==
    IF h.fl[i] = NULL
    THEN SetList(Wr(h, block + NextOff, block), i, block)
    ELSE SetList(Wr(h, block + NextOff, h.fl[i]), i, block)

insert_free(h, block) ==
    IF get_free_list(get_size(h, block)) = 0
    THEN insert_free_mini(h, block, 0)
    ELSE insert_free_basic(h, block, get_free_list(get_size(h, block)))

\* the last statement of clear_free_basic, 557-559
\* clear_free_start with a fault seeded: the head is never moved
clear_free_start_kept(h, block, i, next_block) == h
clear_free_start(h, block, i, next_block) ==
    IF block = h.fl[i] THEN SetList(h, i, next_block) ELSE h

clear_free_basic(h, block, i) ==
    IF h.fl[i] = NULL THEN h
    ELSE LET prev_block == Rd(h, block + PrevOff)
             next_block == Rd(h, block + NextOff)
             h1 == IF prev_block = next_block
                   THEN IF prev_block = block
                        THEN SetList(h, i, NULL)
                        ELSE SetList(Wr(Wr(h, prev_block + PrevOff, prev_block),
                                        prev_block + NextOff, prev_block),
                                     i, prev_block)
                   ELSE h
         IN  clear_free_start(Wr(Wr(h1, prev_block + NextOff, next_block),
                                 next_block + PrevOff, prev_block),
                              block, i, next_block)

\* the for loop of clear_free_mini, 591-596; fuel bounds a walk that would
\* not end, which then sets fault
RECURSIVE mini_walk(_, _, _, _, _)
mini_walk(h, bl, block, next_block, fuel) ==
    IF bl = Rd(h, bl + NextOff) THEN h
    ELSE IF fuel = 0 THEN [h EXCEPT !.fault = TRUE]
    ELSE IF Rd(h, bl + NextOff) = block
         THEN Wr(h, bl + NextOff, next_block)
         ELSE mini_walk(h, Rd(h, bl + NextOff), block, next_block, fuel - 1)

clear_free_mini(h, block, i) ==
    IF h.fl[i] = NULL THEN h
    ELSE LET next_block == Rd(h, block + NextOff)
         IN  IF block = next_block THEN SetList(h, i, NULL)
             ELSE IF block = h.fl[i] THEN SetList(h, i, next_block)
             ELSE mini_walk(h, h.fl[i], block, next_block,
                            Fuel(h))

clear_free(h, block) ==
    LET size == get_size(h, block)
        i    == get_free_list(size)
    IN  IF i = 0 THEN clear_free_mini(h, block, i)
                 ELSE clear_free_basic(h, block, i)

find_next(h, block) == (block + get_size(h, block)) % WordMod

find_next_free(h, block) == Rd(h, block + NextOff)

-----------------------------------------------------------------------------
(* The transition engine, mm.c 664-927 *)

\* the store through header_to_footer, which reads the header just written
write_footer(h, block, word) == Wr(h, header_to_footer(h, block), word)

\* the header alloc2free and free2alloc write: both keep the block's own
\* bit 2, and their two branches on prev write pack(size, false, ..) and
\* pack(size, true, ..)
new_header(h, block, size, prev, alloc) ==
    IF ~prev THEN pack(size, FALSE, alloc, is_minblock(h, block))
             ELSE pack(size, TRUE, alloc, is_minblock(h, block))

\* alloc2free with a fault seeded: no footer is written
alloc2free_nofooter(h, block, size, prev, alloc) ==
    insert_free(Wr(h, block, new_header(h, block, size, prev, alloc)), block)

alloc2free(h, block, size, prev, alloc) ==
    LET word == new_header(h, block, size, prev, alloc)
    IN  IF size # min_block_size
        THEN insert_free(write_footer(Wr(h, block, word), block, word), block)
        ELSE insert_free(Wr(h, block, word), block)

\* free2alloc once clear_free has run, 704-712
write_alloc(h, block, size, prev, alloc) ==
    Wr(h, block, new_header(h, block, size, prev, alloc))

\* free2alloc with a fault seeded: the block stays on its bucket
free2alloc_kept(h, block, size, prev, alloc) ==
    write_alloc(h, block, size, prev, alloc)

free2alloc(h, block, size, prev, alloc) ==
    write_alloc(clear_free(h, block), block, size, prev, alloc)

\* modify_next with a fault seeded: only bit 2 is updated, bit 1 is kept
modify_next_min(h, next, prev, is_min) ==
    LET size  == get_size(h, next)
        alloc == get_alloc(h, next, FALSE)
        word  == pack(size, get_prev_alloc(h, next), alloc, is_min)
    IN  IF size # 0
        THEN IF (~alloc) /\ size # min_block_size
             THEN write_footer(Wr(h, next, word), next, word)
             ELSE Wr(h, next, word)
        ELSE Wr(h, next, word)

modify_next(h, next, prev, is_min) ==
    LET size  == get_size(h, next)
        alloc == get_alloc(h, next, FALSE)
        word  == pack(size, prev, alloc, is_min)
    IN  IF size # 0
        THEN IF (~alloc) /\ size # min_block_size
             THEN write_footer(Wr(h, next, word), next, word)
             ELSE Wr(h, next, word)
        ELSE Wr(h, next, word)

\* modify_next(find_next(block), prev, is_min), as its callers invoke it
modify_after(h, block, prev, is_min) ==
    modify_next(h, find_next(h, block), prev, is_min)

find_prev_footer(block) == block - wsize

find_prev(h, block) ==
    LET footerp == find_prev_footer(block)
    IN  IF extract_size(Rd(h, footerp)) = 0 THEN NULL
        ELSE footer_to_header(h, footerp)

\* the block coalesce_block takes for the predecessor of block, 808-812
coalesce_prev(h, block) ==
    IF is_minblock(h, block) THEN block - dsize ELSE find_prev(h, block)

\* dbg_assert(prev_alloc == 1) of cases 1 and 2, 806-831
coalesce_asserts(h, block) ==
    ~get_prev_alloc(h, block) => get_prev_alloc(h, coalesce_prev(h, block))

coalesce_block(h, block) ==
    LET next == find_next(h, block)
    IN  IF ~get_prev_alloc(h, block)
        THEN LET prev == coalesce_prev(h, block)
                 prev_alloc == get_prev_alloc(h, prev)
             IN  IF ~get_alloc(h, next, FALSE)
                 THEN \* case 1: prev + next both free
                      LET size == (get_size(h, prev) + get_size(h, block)
                                      + get_size(h, next)) % WordMod
                      IN  [h |-> modify_after(
                                   alloc2free(
                                     clear_free(
                                       clear_free(clear_free(h, block), prev),
                                       next),
                                     prev, size, prev_alloc, FALSE),
                                   prev, FALSE, size = min_block_size),
                           r |-> prev]
                 ELSE \* case 2: only prev free
                      LET size == (get_size(h, prev) + get_size(h, block))
                                      % WordMod
                      IN  [h |-> modify_after(
                                   alloc2free(
                                     clear_free(clear_free(h, block), prev),
                                     prev, size, prev_alloc, FALSE),
                                   prev, FALSE, size = min_block_size),
                           r |-> prev]
        ELSE IF ~get_alloc(h, next, FALSE)
             THEN \* case 3: only next free
                  LET prev_alloc == get_prev_alloc(h, block)
                      size == (get_size(h, block) + get_size(h, next))
                                  % WordMod
                  IN  [h |-> modify_after(
                               alloc2free(
                                 clear_free(clear_free(h, block), next),
                                 block, size, prev_alloc, FALSE),
                               block, FALSE, size = min_block_size),
                       r |-> block]
             ELSE \* case 4: prev + next both not free
                  [h |-> h, r |-> block]

\* the page provider: grows the heap by incr bytes and returns the old
\* break, or refuses when the heap would pass its limit
mem_sbrk(h, incr) ==
    IF h.brk + incr > h.max
    THEN [h |-> h, r |-> SBRK_FAILED]
    ELSE [h |-> [h EXCEPT !.brk = h.brk + incr], r |-> h.brk]

\* write_epilogue(find_next(block), false), 885-887
epilogue_after(h, block) == write_epilogue(h, find_next(h, block), FALSE)

\* extend_heap once the provider has granted size bytes at bp, 877-890
\* extend_heap with a fault seeded: no new epilogue is written
extend_at_noepilogue(h, bp, size) ==
    LET block == payload_to_header(bp)
    IN  coalesce_block(
          alloc2free(h, block, size, get_prev_alloc(h, block), FALSE),
          block)

extend_at(h, bp, size) ==
    LET block == payload_to_header(bp)
    IN  coalesce_block(
          epilogue_after(
            alloc2free(h, block, size, get_prev_alloc(h, block), FALSE),
            block),
          block)

extend_heap(h, size) ==
    LET s == mem_sbrk(h, round_up(size, dsize))
    IN  IF s.r = SBRK_FAILED THEN [h |-> s.h, r |-> NULL]
        ELSE extend_at(s.h, s.r, round_up(size, dsize))

\* split_block from block_next = find_next(block) on, 915-922
\* split_rest with a fault seeded: the excess is left as it was
split_rest_kept(h, block_next, size, prev_min) == h
split_rest(h, block_next, size, prev_min) ==
    modify_after(
      modify_next(alloc2free(h, block_next, size, TRUE, FALSE),
                  block_next, TRUE, prev_min),
      block_next, FALSE, size = min_block_size)

split_next(h, block, size, prev_min) ==
    split_rest(h, find_next(h, block), size, prev_min)

split_block(h, block, asize) ==
    LET block_size == get_size(h, block)
        prev_alloc == get_prev_alloc(h, block)
    IN  IF (block_size - asize) % WordMod >= min_block_size
        THEN split_next(free2alloc(h, block, asize, prev_alloc, TRUE), block,
                        (block_size - asize) % WordMod,
                        asize = min_block_size)
        ELSE h

-----------------------------------------------------------------------------
(* The placement engine, mm.c 937-1128 *)

\* what find_fit_basic returns once its for loop is left, 983-988
\* fit_after with a fault seeded: best is returned whether or not it was set
fit_after_best(h, asize, free_list_starter, best, init) == best
fit_after(h, asize, free_list_starter, best, init) ==
    IF init THEN best
    ELSE IF asize <= get_size(h, free_list_starter) THEN free_list_starter
    ELSE NULL

\* the for loop of find_fit_basic, 963-982.  mindiff is read only when
\* init holds, and init holds only if line 959 has set mindiff.  size_t
\* differences wrap.  fuel bounds a scan that would not end (NULL then).
RECURSIVE fit_loop(_, _, _, _, _, _, _, _, _)
fit_loop(h, asize, free_list_starter, block, best, mindiff, init, times, fuel) ==
    IF block = free_list_starter
    THEN fit_after(h, asize, free_list_starter, best, init)
    ELSE IF fuel = 0 THEN NULL
    ELSE
    LET sizeb == get_size(h, block)
        diff  == (sizeb - asize) % WordMod
        next  == find_next_free(h, block)
    IN  IF asize <= sizeb /\ diff <= free_16 THEN block
        ELSE IF times = searchtime
        THEN IF init THEN best
             ELSE IF asize <= get_size(h, free_list_starter)
                  THEN free_list_starter
                  ELSE fit_loop(h, asize, free_list_starter, next, best,
                                mindiff, init, times + 1, fuel - 1)
        ELSE IF diff >= 0 /\ (~init \/ diff < mindiff)
             THEN fit_loop(h, asize, free_list_starter, next, block, diff,
                           init, times + 1, fuel - 1)
             ELSE fit_loop(h, asize, free_list_starter, next, best, mindiff,
                           init, times + 1, fuel - 1)

\* the number of blocks whose size the for loop of find_fit_basic reads
\* from block on, 963-982: line 964 reads it before any test
RECURSIVE loop_reads(_, _, _, _, _, _, _)
loop_reads(h, asize, free_list_starter, block, init, times, fuel) ==
    IF block = free_list_starter \/ fuel = 0 THEN 0
    ELSE IF asize <= get_size(h, block)
            /\ (get_size(h, block) - asize) % WordMod <= free_16
    THEN 1
    ELSE IF times = searchtime
            /\ (init \/ asize <= get_size(h, free_list_starter))
    THEN 1
    ELSE 1 + loop_reads(h, asize, free_list_starter, find_next_free(h, block),
                        init, times + 1, fuel - 1)

\* the number of blocks whose size find_fit_basic reads, 945-988
fit_reads(h, asize, free_list_starter) ==
    IF free_list_starter = NULL THEN 0
    ELSE LET sizeb == get_size(h, free_list_starter)
         IN  IF asize <= sizeb /\ (sizeb - asize) % WordMod <= free_16
             THEN 1
             ELSE 1 + loop_reads(h, asize, free_list_starter,
                                 find_next_free(h, free_list_starter),
                                 asize <= sizeb, 0, Fuel(h))
\* find_fit_basic with a fault seeded: only a head with a slack of 16 bytes
\* or less is taken
find_fit_basic_near(h, asize, free_list_starter) ==
    IF free_list_starter # NULL
       /\ asize <= get_size(h, free_list_starter)
       /\ (get_size(h, free_list_starter) - asize) % WordMod <= free_16
    THEN free_list_starter
    ELSE NULL
find_fit_basic(h, asize, free_list_starter) ==
    IF free_list_starter = NULL THEN NULL
    ELSE LET sizeb == get_size(h, free_list_starter)
         IN  IF asize <= sizeb /\ (sizeb - asize) % WordMod <= free_16
             THEN free_list_starter
             ELSE fit_loop(h, asize, free_list_starter,
                           find_next_free(h, free_list_starter),
                           free_list_starter,
                           IF asize <= sizeb THEN sizeb - asize ELSE 0,
                           asize <= sizeb, 0, Fuel(h))

\* the while loop that each branch of find_fit runs from its first bucket
RECURSIVE fit_buckets(_, _, _)
fit_buckets(h, asize, times) ==
    IF times < free_size
    THEN IF find_fit_basic(h, asize, h.fl[times]) # NULL
         THEN find_fit_basic(h, asize, h.fl[times])
         ELSE fit_buckets(h, asize, times + 1)
    ELSE NULL

\* the branch of find_fit chosen by asize sets times to the bucket of asize
find_fit(h, asize) == fit_buckets(h, asize, get_free_list(asize))

\* whether the for loop of clear_free_mini, 591-596, reaches bl == bl->next
\* or its break; a walk that leaves the heap or uses up fuel does not
RECURSIVE mini_walk_ends(_, _, _, _)
mini_walk_ends(h, bl, block, fuel) ==
    IF ~InHeap(h, bl + NextOff) THEN FALSE
    ELSE IF bl = Rd(h, bl + NextOff) THEN TRUE
    ELSE IF fuel = 0 THEN FALSE
    ELSE IF Rd(h, bl + NextOff) = block THEN TRUE
    ELSE mini_walk_ends(h, Rd(h, bl + NextOff), block, fuel - 1)

\* whether clear_free_mini(block, i) returns, 574-599
clear_free_mini_ends(h, block, i) ==
    IF h.fl[i] = NULL THEN TRUE
    ELSE IF block = Rd(h, block + NextOff) THEN TRUE
    ELSE IF block = h.fl[i] THEN TRUE
    ELSE mini_walk_ends(h, h.fl[i], block, Fuel(h))

\* whether the for loop of find_fit_basic, 963-982, is left from block on;
\* a scan that has used up fuel has met a block twice after the limit
RECURSIVE fit_loop_ends(_, _, _, _, _, _, _)
fit_loop_ends(h, asize, free_list_starter, block, init, times, fuel) ==
    IF block = free_list_starter THEN TRUE
    ELSE IF fuel = 0 THEN FALSE
    ELSE IF asize <= get_size(h, block)
            /\ (get_size(h, block) - asize) % WordMod <= free_16
    THEN TRUE
    ELSE IF times = searchtime
            /\ (init \/ asize <= get_size(h, free_list_starter))
    THEN TRUE
    ELSE fit_loop_ends(h, asize, free_list_starter, find_next_free(h, block),
                       init, times + 1, fuel - 1)

\* whether find_fit_basic(asize, free_list_starter) returns, 937-989
find_fit_basic_ends(h, asize, free_list_starter) ==
    IF free_list_starter = NULL THEN TRUE
    ELSE IF asize <= get_size(h, free_list_starter)
            /\ (get_size(h, free_list_starter) - asize) % WordMod <= free_16
    THEN TRUE
    ELSE fit_loop_ends(h, asize, free_list_starter,
                       find_next_free(h, free_list_starter),
                       asize <= get_size(h, free_list_starter), 0,
                       Fuel(h) + searchtime + 1)

\* whether the while loop of find_fit returns from bucket times on
RECURSIVE fit_buckets_ends(_, _, _)
fit_buckets_ends(h, asize, times) ==
    IF times < free_size
    THEN /\ find_fit_basic_ends(h, asize, h.fl[times])
         /\ \/ find_fit_basic(h, asize, h.fl[times]) # NULL
            \/ fit_buckets_ends(h, asize, times + 1)
    ELSE TRUE

\* whether find_fit(asize) returns, 997-1128
find_fit_ends(h, asize) == fit_buckets_ends(h, asize, get_free_list(asize))
-----------------------------------------------------------------------------
(* The heap checker, mm.c 1135-1459 *)

check_freenull(h) == \A i \in 0 .. free_size - 1 : h.fl[i] = NULL

\* the tests on the place and the size of a bucket member, 1155-1171
member_bad(h, freeblock, size, prevsize, low, high) ==
    \/ freeblock <= low
    \/ freeblock >= high - 7
    \/ (get_size(h, freeblock) > size /\ size # 0)
    \/ get_size(h, freeblock) <= prevsize

\* the for loop of check_minimatch, 1175-1198; return false is 0
RECURSIVE minimatch_loop(_, _, _, _, _, _, _, _)
minimatch_loop(h, freeblock, size, prevsize, low, high, count_free, fuel) ==
    IF freeblock = Rd(h, freeblock + NextOff) THEN count_free
    ELSE IF fuel = 0 THEN 0
    ELSE IF member_bad(h, freeblock, size, prevsize, low, high) THEN 0
    ELSE minimatch_loop(h, Rd(h, freeblock + NextOff), size, prevsize, low,
                        high, count_free + 1, fuel - 1)

check_minimatch(h, free_list_starter, size, prevsize, low, high) ==
    IF free_list_starter = NULL THEN 0
    ELSE IF member_bad(h, free_list_starter, size, prevsize, low, high) THEN 0
    ELSE minimatch_loop(h, Rd(h, free_list_starter + NextOff), size, prevsize,
                        low, high, 1, Fuel(h))

\* next->prev != freeblock or prev->next != freeblock, 1214-1226
links_bad(h, freeblock) ==
    \/ Rd(h, find_next_free(h, freeblock) + PrevOff) # freeblock
    \/ Rd(h, Rd(h, freeblock + PrevOff) + NextOff) # freeblock

\* the for loop of check_freematch, 1249-1289
RECURSIVE freematch_loop(_, _, _, _, _, _, _, _, _)
freematch_loop(h, free_list_starter, freeblock, size, prevsize, low, high, count_free, fuel) ==
    IF freeblock = free_list_starter THEN count_free
    ELSE IF fuel = 0 THEN 0
    ELSE IF links_bad(h, freeblock) THEN 0
    ELSE IF member_bad(h, freeblock, size, prevsize, low, high) THEN 0
    ELSE freematch_loop(h, free_list_starter, find_next_free(h, freeblock),
                        size, prevsize, low, high, count_free + 1, fuel - 1)

check_freematch(h, free_list_starter, size, prevsize, low, high) ==
    IF free_list_starter = NULL THEN 0
    ELSE IF links_bad(h, free_list_starter) THEN 0
    ELSE IF member_bad(h, free_list_starter, size, prevsize, low, high) THEN 0
    ELSE freematch_loop(h, free_list_starter,
                        find_next_free(h, free_list_starter), size, prevsize,
                        low, high, 1, Fuel(h))

\* the tests of one block of the walk of mm_checkheap, 1339-1377
block_bad(h, block, low, high) ==
    \/ block <= low
    \/ block >= high - 7
    \/ /\ ~get_alloc(h, block, FALSE)
       /\ get_size(h, block) # min_block_size
       /\ \/ extract_size(Rd(h, block))
                # extract_size(Rd(h, header_to_footer(h, block)))
          \/ extract_alloc(Rd(h, block))
                # extract_alloc(Rd(h, header_to_footer(h, block)))
    \/ (block + get_size(h, block)) % WordMod # find_next(h, block)
    \/ get_size(h, block) % dsize # 0

\* the walk of mm_checkheap, 1337-1404: the number of free blocks, or -1
\* where the walk returns false
RECURSIVE checkheap_walk(_, _, _, _, _, _, _)
checkheap_walk(h, block, low, high, is_empty, count, fuel) ==
    IF get_size(h, block) = 0 THEN count
    ELSE IF fuel = 0 THEN -1
    ELSE IF block_bad(h, block, low, high) THEN -1
    ELSE IF ~get_alloc(h, block, FALSE) /\ is_empty THEN -1
    ELSE checkheap_walk(h, find_next(h, block), low, high,
                        ~get_alloc(h, block, FALSE),
                        count + B2N(~get_alloc(h, block, FALSE)), fuel - 1)

\* the sum of the counts of the 14 buckets, 1422-1449
checkheap_lists(h, low, high) ==
    check_minimatch(h, h.fl[0], free_16, 0, low, high)
    + check_freematch(h, h.fl[1], free_32, free_16, low, high)
    + check_freematch(h, h.fl[2], free_48, free_32, low, high)
    + check_freematch(h, h.fl[3], free_64, free_48, low, high)
    + check_freematch(h, h.fl[4], free_128, free_64, low, high)
    + check_freematch(h, h.fl[5], free_256, free_128, low, high)
    + check_freematch(h, h.fl[6], free_512, free_256, low, high)
    + check_freematch(h, h.fl[7], free_1024, free_512, low, high)
    + check_freematch(h, h.fl[8], free_2048, free_1024, low, high)
    + check_freematch(h, h.fl[9], free_4096, free_2048, low, high)
    + check_freematch(h, h.fl[10], free_8192, free_4096, low, high)
    + check_freematch(h, h.fl[11], free_16384, free_8192, low, high)
    + check_freematch(h, h.fl[12], free_32768, free_16384, low, high)
    + check_freematch(h, h.fl[13], 0, free_32768, low, high)

\* mm_checkheap once the walk has counted count free blocks, 1406-1458
checkheap_counts(h, count, low, high) ==
    IF count < 0 THEN FALSE
    ELSE IF count = 0 /\ ~check_freenull(h) THEN FALSE
    ELSE IF count # 0 /\ check_freenull(h) THEN FALSE
    ELSE IF ~check_freenull(h) THEN count = checkheap_lists(h, low, high)
    ELSE TRUE

\* mem_heap_lo() is the first byte of the heap and mem_heap_hi() its last
mm_checkheap(h) ==
    /\ extract_size(Rd(h, HeapLo)) = 0
    /\ extract_alloc(Rd(h, HeapLo)) # 0
    /\ get_size(h, (h.brk - 1) - 7) = 0
    /\ get_alloc(h, (h.brk - 1) - 7, FALSE)
    /\ checkheap_counts(h,
                        checkheap_walk(h, h.hs, HeapLo, h.brk - 1, FALSE, 0,
                                       Fuel(h)),
                        HeapLo, h.brk - 1)
\* find_fit_heap with a fault seeded: the block found is made the head
\* of its bucket
find_fit_heap_moved(h, asize) ==
    IF find_fit(h, asize) = NULL THEN h
    ELSE SetList(h, get_free_list(get_size(h, find_fit(h, asize))),
                 find_fit(h, asize))

\* the heap as find_fit leaves it: lines 937-1128 read sizes and links
\* and hold no store
find_fit_heap(h, asize) == h

-----------------------------------------------------------------------------
(* The public functions, mm.c 1468-1679 *)

\* mm_init once the provider has granted the two words at start, 1476-1492
\* init_result with a fault seeded: a refused chunk is not reported
init_result_true(e) == [h |-> e.h, r |-> TRUE]
init_result(e) == [h |-> e.h, r |-> e.r # NULL]

\* init_at with a fault seeded: the prologue is written with bit 1 set
init_at_set(h, start) ==
    init_result(
      extend_heap(
        [Wr(Wr(h, start, pack(0, TRUE, TRUE, TRUE)),
            start + wsize, pack(0, TRUE, TRUE, TRUE))
           EXCEPT !.hs = start + wsize,
                  !.fl = [i \in 0 .. free_size - 1 |-> NULL]],
        chunksize))

init_at(h, start) ==
    init_result(
      extend_heap(
        [Wr(Wr(h, start, pack(0, FALSE, TRUE, TRUE)),
            start + wsize, pack(0, TRUE, TRUE, TRUE))
           EXCEPT !.hs = start + wsize,
                  !.fl = [i \in 0 .. free_size - 1 |-> NULL]],
        chunksize))

mm_init(h) ==
    LET s == mem_sbrk(h, 2 * wsize)
    IN  IF s.r = SBRK_FAILED THEN [h |-> s.h, r |-> FALSE]
        ELSE init_at(s.h, s.r)

\* malloc once a block was found or the heap extended, 1540-1558
malloc_place(h, block, asize) ==
    [h |-> split_block(
             modify_after(
               free2alloc(h, block, get_size(h, block),
                          get_prev_alloc(h, block), TRUE),
               block, TRUE, asize = min_block_size),
             block, asize),
     r |-> header_to_payload(block)]

\* malloc after a failed search, 1528-1537
malloc_extend(e, asize) ==
    IF e.r = NULL THEN [h |-> e.h, r |-> NULL]
    ELSE malloc_place(e.h, e.r, asize)

\* malloc after the search, 1526-1558
malloc_found(h, block, asize) ==
    IF block = NULL
    THEN malloc_extend(extend_heap(h, max(asize, chunksize)), asize)
    ELSE malloc_place(h, block, asize)

\* malloc on an initialised heap, 1516-1558
\* malloc_sized with a fault seeded: a request of 0 bytes is served
malloc_sized_served(h, size) ==
    LET asize == round_up((size + wsize) % WordMod, dsize)
    IN  malloc_found(h, find_fit(h, asize), asize)
malloc_sized(h, size) ==
    IF size = 0 THEN [h |-> h, r |-> NULL]
    ELSE LET asize == round_up((size + wsize) % WordMod, dsize)
         IN  malloc_found(find_fit_heap(h, asize), find_fit(h, asize), asize)

malloc(h, size) ==
    IF h.hs = NULL THEN malloc_sized(mm_init(h).h, size)
    ELSE malloc_sized(h, size)

\* free once the block is marked free, 1590-1596
\* free with a fault seeded: the released block is not coalesced
free_unmerged(h, block, size) ==
    modify_after(h, block, FALSE, size = min_block_size)

free_coalesce(h, block, size) ==
    coalesce_block(modify_after(h, block, FALSE, size = min_block_size),
                   block).h

free(h, bp) ==
    IF bp = NULL THEN h
    ELSE LET block == payload_to_header(bp)
             size  == get_size(h, block)
         IN  free_coalesce(
               alloc2free(h, block, size, get_prev_alloc(h, block), FALSE),
               block, size)

\* memcpy and memset on whole words: n is a multiple of wsize.  A word of
\* the source that was never written leaves the destination word unwritten.
WordsOf(a, n) == {a + wsize * k : k \in 0 .. (n \div wsize) - 1}

memcpy(h, dst, src, n) ==
    LET moved == {a \in WordsOf(dst, n) : (a - dst) + src \in DOMAIN h.mem}
        kept  == DOMAIN h.mem \ WordsOf(dst, n)
    IN  [h EXCEPT !.mem = [a \in kept \cup moved |->
                             IF a \in moved THEN h.mem[(a - dst) + src]
                                            ELSE h.mem[a]]]

memset(h, dst, c, n) ==
    [h EXCEPT !.mem = [a \in DOMAIN h.mem \cup WordsOf(dst, n) |->
                          IF a \in WordsOf(dst, n) THEN c ELSE h.mem[a]]]

\* realloc once malloc has returned, 1631-1645
\* realloc_copy with a fault seeded: the old block is released even when
\* no new block was obtained
realloc_copy_lossy(m, ptr, size) ==
    IF m.r = NULL THEN [h |-> free(m.h, ptr), r |-> NULL]
    ELSE LET payload  == get_payload_size(m.h, payload_to_header(ptr))
             copysize == IF size < payload THEN size ELSE payload
         IN  [h |-> free(memcpy(m.h, m.r, ptr, copysize), ptr), r |-> m.r]
realloc_copy(m, ptr, size) ==
    IF m.r = NULL THEN [h |-> m.h, r |-> NULL]
    ELSE LET payload  == get_payload_size(m.h, payload_to_header(ptr))
             copysize == IF size < payload THEN size ELSE payload
         IN  [h |-> free(memcpy(m.h, m.r, ptr, copysize), ptr), r |-> m.r]

\* realloc with a fault seeded: the payload is not copied
realloc_nocopy(h, ptr, size) ==
    IF size = 0 THEN [h |-> free(h, ptr), r |-> NULL]
    ELSE IF ptr = NULL THEN malloc(h, size)
    ELSE LET m == malloc(h, size)
         IN  IF m.r = NULL THEN m ELSE [h |-> free(m.h, ptr), r |-> m.r]
realloc(h, ptr, size) ==
    IF size = 0 THEN [h |-> free(h, ptr), r |-> NULL]
    ELSE IF ptr = NULL THEN malloc(h, size)
    ELSE realloc_copy(malloc(h, size), ptr, size)

\* calloc once malloc has returned, 1672-1678
calloc_fill(m, asize) ==
    IF m.r = NULL THEN [h |-> m.h, r |-> NULL]
    ELSE [h |-> memset(m.h, m.r, 0, asize), r |-> m.r]

\* elements * size as size_t computes it: the product modulo WordMod,
\* by doubling so that no intermediate value leaves the machine word
RECURSIVE MulMod(_, _)
MulMod(a, b) ==
    IF b = 0 THEN 0
    ELSE (((2 * MulMod(a, b \div 2)) % WordMod)
            + (IF b % 2 = 1 THEN a ELSE 0)) % WordMod

\* calloc with a fault seeded: the product is not checked for overflow
calloc_unchecked(h, elements, size) ==
    IF elements = 0 THEN [h |-> h, r |-> NULL]
    ELSE calloc_fill(malloc(h, MulMod(elements, size)), MulMod(elements, size))
calloc(h, elements, size) ==
    LET asize == MulMod(elements, size)
    IN  IF elements = 0 THEN [h |-> h, r |-> NULL]
        ELSE IF asize \div elements # size THEN [h |-> h, r |-> NULL]
        ELSE calloc_fill(malloc(h, asize), asize)

-----------------------------------------------------------------------------
(* The implicit list, as mm_checkheap walks it (1337): the blocks from     *)
(* heap_start up to the first header of size 0                             *)

RECURSIVE walk(_, _, _)
walk(h, block, fuel) ==
    IF fuel = 0 \/ block = NULL \/ get_size(h, block) = 0 THEN <<>>
    ELSE <<block>> \o walk(h, find_next(h, block), fuel - 1)

Blocks(h) == walk(h, h.hs, Fuel(h))

\* where a walk over the blocks bs ends: the epilogue on a well-formed heap
EndOf(h, bs) == IF bs = <<>> THEN h.hs ELSE find_next(h, bs[Len(bs)])

WalkEnd(h) == EndOf(h, Blocks(h))

\* the words of block b that hold allocator state or, when data is kept,
\* caller data; of the block just returned (payload fresh) only the words
\* the call filled
OwnWords(h, b, data, fresh, filled) ==
    IF get_alloc(h, b, FALSE)
    THEN IF ~data THEN {b}
         ELSE IF header_to_payload(b) = fresh THEN {b} \cup filled
         ELSE {a \in DOMAIN h.mem : a >= b /\ a < find_next(h, b)}
    ELSE IF get_size(h, b) = min_block_size THEN {b, b + NextOff}
         ELSE {b, b + NextOff, b + PrevOff, header_to_footer(h, b)}

Kept(h, bs, data, fresh, filled) ==
    {HeapLo, EndOf(h, bs)}
        \cup UNION {OwnWords(h, bs[k], data, fresh, filled) : k \in 1 .. Len(bs)}

Restrict(h, keep) ==
    [h EXCEPT !.mem = [a \in DOMAIN h.mem \cap keep |-> h.mem[a]]]

Forget(h, data, fresh, filled) ==
    Restrict(h, Kept(h, Blocks(h), data, fresh, filled))

-----------------------------------------------------------------------------
(* The program as a state machine: one action per public call *)

\* the most blocks a caller holds at a time
MaxLive == 3

\* the most public calls made on one heap
MaxCalls == 6

\* the most calls and stores made on one heap when the caller is observed
MaxTraced == 3

\* the limits the page provider may have, in bytes of heap: it refuses
\* the first request, the first chunk, or a later extension
HeapLimits == {wsize, 2 * wsize + 256, 2 * wsize + 2 * chunksize}

\* what a word that was never written may hold
JunkWords == {0, WordMod - 1}

\* the byte counts asked of malloc, of realloc, and of calloc
MallocSizes == {0, 1, 24, 4024}

ReallocSizes == {0, 24}

CallocArgs == {<<0, 8>>, <<3, 8>>}

H(j) == [mem |-> mem, fl |-> free_list_start, hs |-> heap_start,
         brk |-> mem_brk, max |-> mem_max_addr, junk |-> j, fault |-> fault]

Commit(h) ==
    /\ mem' = h.mem
    /\ free_list_start' = h.fl
    /\ heap_start' = h.hs
    /\ mem_brk' = h.brk
    /\ mem_max_addr' = h.max
    /\ fault' = h.fault

Live == live

\* live after a call that released old (or NULL) and returned new (or NULL)
LiveAfter(old, new) == (live \ {old}) \cup ({new} \ {NULL})

Call(op, p, n, m, r) ==
    /\ calls < (IF trace THEN MaxTraced ELSE MaxCalls)
    /\ calls' = calls + 1
    /\ reissued' = (reissued \/ (r # NULL /\ r \in Live))
    /\ UNCHANGED <<trace, plan>>
    /\ IF trace
       THEN lastop' = [op |-> op, p |-> p, n |-> n, m |-> m] /\ ret' = r
       ELSE UNCHANGED <<lastop, ret>>

InitWith(limits) ==
    /\ mem = [a \in {} |-> 0]
    /\ free_list_start = [i \in 0 .. free_size - 1 |-> NULL]
    /\ heap_start = NULL
    /\ mem_brk = HeapLo
    /\ mem_max_addr \in {HeapLo + l : l \in limits}
    /\ fault = FALSE
    /\ live = {}
    /\ reissued = FALSE
    /\ calls = 0
    /\ lastop = [op |-> "none", p |-> NULL, n |-> 0, m |-> 0]
    /\ ret = NULL

\* the caller of Spec, SpecT and SpecBig follows no script
NoPlan == [todo |-> <<>>, got |-> <<>>]

InitHeap == InitWith(HeapLimits) /\ plan = NoPlan

Init == InitHeap /\ trace = FALSE

MmInit ==
    /\ heap_start = NULL
    /\ \E j \in JunkWords : \E c \in {mm_init(H(j))} :
          /\ Commit(Forget(c.h, trace, NULL, {}))
          /\ Call("mm_init", NULL, 0, 0, B2N(c.r))
    /\ UNCHANGED live

Malloc(size) ==
    /\ Cardinality(Live) < MaxLive
    /\ \E j \in JunkWords : \E c \in {malloc(H(j), size)} :
          /\ Commit(Forget(c.h, trace, c.r, {}))
          /\ live' = LiveAfter(NULL, c.r)
          /\ Call("malloc", NULL, size, 0, c.r)

Free(bp) ==
    /\ \E j \in JunkWords : Commit(Forget(free(H(j), bp), trace, NULL, {}))
    /\ live' = LiveAfter(bp, NULL)
    /\ Call("free", bp, 0, 0, NULL)

\* the words of the new payload that realloc copied into
Copied(c, ptr, size) ==
    IF ptr = NULL THEN {}
    ELSE {a \in WordsOf(c.r, size) : a \in DOMAIN c.h.mem}

Realloc(ptr, size) ==
    /\ (ptr = NULL /\ size # 0) => Cardinality(Live) < MaxLive
    /\ \E j \in JunkWords : \E c \in {realloc(H(j), ptr, size)} :
          /\ Commit(Forget(c.h, trace, c.r, Copied(c, ptr, size)))
          /\ live' = IF size # 0 /\ ptr # NULL /\ c.r = NULL
                     THEN live
                     ELSE LiveAfter(ptr, c.r)
          /\ Call("realloc", ptr, size, 0, c.r)

\* the words of the new payload that calloc set to zero
Zeroed(c, elements, size) ==
    IF c.r = NULL THEN {} ELSE WordsOf(c.r, MulMod(elements, size))

Calloc(elements, size) ==
    /\ Cardinality(Live) < MaxLive
    /\ \E j \in JunkWords : \E c \in {calloc(H(j), elements, size)} :
          /\ Commit(Forget(c.h, trace, c.r, Zeroed(c, elements, size)))
          /\ live' = LiveAfter(NULL, c.r)
          /\ Call("calloc", NULL, size, elements, c.r)

Next ==
    \/ MmInit
    \/ \E size \in MallocSizes : Malloc(size)
    \/ \E bp \in Live \cup {NULL} : Free(bp)
    \/ \E ptr \in Live \cup {NULL} : \E size \in ReallocSizes :
          Realloc(ptr, size)
    \/ \E a \in CallocArgs : Calloc(a[1], a[2])

Spec == Init /\ [][Next]_vars

-----------------------------------------------------------------------------
(* The same program with its caller observed: the data the caller stores   *)
(* in the payloads it holds is kept, and each call and what it returned    *)
(* is recorded in lastop and ret                                           *)

\* the payload words the caller writes, counted from the payload pointer
StoreSlots == {0, 2}

\* the byte counts asked of realloc when the caller is observed
ReallocSizesT == {0, 24, 4024}

\* the limits of the provider when the caller is observed: it refuses the
\* first request, the first chunk, or every extension after the first chunk
HeapLimitsT == {wsize, 2 * wsize + 256, 2 * wsize + chunksize}

InitT == InitWith(HeapLimitsT) /\ trace = TRUE /\ plan = NoPlan

\* the caller writes word k of a payload it holds
Store(p, k) ==
    /\ wsize * k < get_payload_size(H(0), payload_to_header(p))
    /\ mem' = ((p + wsize * k) :> (k + 1)) @@ mem
    /\ Call("store", p, k, 0, NULL)
    /\ UNCHANGED <<free_list_start, heap_start, mem_brk, mem_max_addr, fault,
                   live>>

NextT ==
    \/ MmInit
    \/ \E size \in MallocSizes : Malloc(size)
    \/ \E bp \in Live \cup {NULL} : Free(bp)
    \/ \E ptr \in Live \cup {NULL} : \E size \in ReallocSizesT :
          Realloc(ptr, size)
    \/ \E a \in CallocArgs : Calloc(a[1], a[2])
    \/ \E p \in Live : \E k \in StoreSlots : Store(p, k)

SpecT == InitT /\ [][NextT]_vars

-----------------------------------------------------------------------------
(* The same program, observed, asked for byte counts near the top of the   *)
(* range of size_t                                                         *)

\* the byte counts asked of malloc: small ones, the largest count for
\* which size + 8 rounds to a word-sized value, and counts that wrap
MallocSizesBig == {1, 24, WordMod - 24, WordMod - 8, WordMod - 1}

\* the arguments of calloc: products below, at and above WordMod
CallocArgsBig ==
    {<<3, 8>>, <<1, WordMod - 24>>, <<3, WordMod \div 4>>,
     <<2, WordMod \div 2>>, <<WordMod \div 4, 8>>,
     <<WordMod - 1, WordMod - 1>>}

InitBig ==
    InitWith({2 * wsize + chunksize}) /\ trace = TRUE /\ plan = NoPlan

\* the block the caller was last given holds what it asked for; the caller
\* is followed up to the first call that gave it less, after which its
\* use of the payload is a store outside the block
Served ==
    (lastop.op \in {"malloc", "calloc"} /\ ret # NULL)
        => get_size(H(0), payload_to_header(ret))
              >= MulMod(max(lastop.m, 1), lastop.n) + wsize

NextBig ==
    \/ Served /\ MmInit
    \/ Served /\ \E size \in MallocSizesBig : Malloc(size)
    \/ Served /\ \E bp \in Live \cup {NULL} : Free(bp)
    \/ Served /\ \E a \in CallocArgsBig : Calloc(a[1], a[2])

SpecBig == InitBig /\ [][NextBig]_vars

-----------------------------------------------------------------------------
(* The same program under a scripted caller: it allocates a row of blocks, *)
(* each followed by a block of 1 byte that keeps its neighbours apart,     *)
(* releases blocks of the row in a chosen order, which builds the buckets  *)
(* one member at a time, and goes on with the calls that end the script    *)

\* the blocks of the long row: one more than a scan of a bucket looks at
\* after its head and the searchtime blocks that follow it
RowLen == 18

M(size) == [op |-> "malloc", n |-> size]

\* release of what the k-th malloc of the script returned
F(k) == [op |-> "free", n |-> k]

\* the blocks of the given byte counts, each followed by one of 1 byte
RECURSIVE Spaced(_)
Spaced(sizes) ==
    IF sizes = <<>> THEN <<>>
    ELSE <<M(Head(sizes)), M(1)>> \o Spaced(Tail(sizes))

\* the releases of blocks ks of a row, and of the blocks that follow them
Releases(ks) == [i \in 1 .. Len(ks) |-> F(2 * ks[i] - 1)]

Spacers(ks) == [i \in 1 .. Len(ks) |-> F(2 * ks[i])]

\* a row released from its first block to its last: the last is the head
Row(sizes) == Spaced(sizes) \o Releases([i \in 1 .. Len(sizes) |-> i])

Scripts ==
    { \* a long bucket 5 of equal blocks with a closer fit at its end
      Row([i \in 1 .. RowLen |-> IF i = 1 THEN 168 ELSE 248])
          \o <<M(136), M(136)>>,
      \* a long bucket 5 whose head is its smallest block
      Row([i \in 1 .. RowLen |-> IF i = RowLen THEN 136 ELSE 248])
          \o <<M(152), M(240)>>,
      \* bucket 5 with a small head and a larger block behind it
      Row(<<200, 136>>) \o <<M(152), M(136)>>,
      \* bucket 5 with blocks of four sizes, in two orders
      Row(<<248, 152, 168, 200>>) \o <<M(136), M(136), M(136)>>,
      Row(<<152, 200, 248, 168>>) \o <<M(184), M(136)>> \o Spacers(<<2>>),
      \* bucket 0 with three blocks, taken from it by merges and by malloc
      Row(<<1, 1, 1>>) \o Spacers(<<2>>),
      Row(<<1, 1, 1>>) \o Spacers(<<1>>),
      Row(<<1, 1, 1>>) \o <<M(1), M(1), M(1)>>,
      \* bucket 1 with three blocks, taken from it by merges and by malloc
      Row(<<24, 24, 24>>) \o Spacers(<<1, 2>>),
      Row(<<24, 24, 24>>) \o Spacers(<<2, 1>>),
      Row(<<24, 24, 24>>) \o <<M(24), M(24), M(24)>> }

InitPlan ==
    /\ InitWith({2 * wsize + 3 * chunksize})
    /\ trace = TRUE
    /\ plan \in {[todo |-> s, got |-> <<>>] : s \in Scripts}

\* the bookkeeping of a scripted call: it is recorded and leaves the script
Scripted(op, p, n, r) ==
    /\ calls' = calls + 1
    /\ reissued' = (reissued \/ (r # NULL /\ r \in Live))
    /\ lastop' = [op |-> op, p |-> p, n |-> n, m |-> 0]
    /\ ret' = r
    /\ plan' = [todo |-> Tail(plan.todo),
                got |-> IF op = "malloc" THEN Append(plan.got, r) ELSE plan.got]
    /\ UNCHANGED trace

PlanMalloc(size) ==
    \E j \in JunkWords : \E c \in {malloc(H(j), size)} :
        /\ Commit(Forget(c.h, trace, c.r, {}))
        /\ live' = LiveAfter(NULL, c.r)
        /\ Scripted("malloc", NULL, size, c.r)

PlanFree(bp) ==
    /\ \E j \in JunkWords : Commit(Forget(free(H(j), bp), trace, NULL, {}))
    /\ live' = LiveAfter(bp, NULL)
    /\ Scripted("free", bp, 0, NULL)

NextPlan ==
    \/ /\ plan.todo # <<>> /\ Head(plan.todo).op = "malloc"
       /\ PlanMalloc(Head(plan.todo).n)
    \/ /\ plan.todo # <<>> /\ Head(plan.todo).op = "free"
       /\ PlanFree(plan.got[Head(plan.todo).n])

SpecPlan == InitPlan /\ [][NextPlan]_vars

-----------------------------------------------------------------------------
(* The heap as the data model describes it *)

\* the heap between two public calls; a word never written reads as 0
Heap == H(0)

Initialised == heap_start # NULL

Range(s) == {s[k] : k \in 1 .. Len(s)}

IsFree(h, b) == ~get_alloc(h, b, FALSE)

\* the address of the prologue word: the word before the first block
Prologue(h) == h.hs - wsize

\* the address of the last word of the heap, where the epilogue belongs
LastWord(h) == h.brk - wsize

\* the blocks reached from b by following next
RECURSIVE reach(_, _, _)
reach(h, b, seen) ==
    IF b = NULL \/ b \in seen THEN seen
    ELSE reach(h, find_next_free(h, b), seen \cup {b})

\* the members of bucket i
Members(h, i) == reach(h, h.fl[i], {})

Buckets(h) == [i \in 0 .. free_size - 1 |-> Members(h, i)]

OnBucket(bk, b) == \E i \in DOMAIN bk : b \in bk[i]

FreeBlocks(h, bs) == {b \in Range(bs) : IsFree(h, b)}

RECURSIVE SumCard(_, _)
SumCard(bk, i) ==
    IF i \notin DOMAIN bk THEN 0 ELSE Cardinality(bk[i]) + SumCard(bk, i + 1)

RECURSIVE SumSizes(_, _, _)
SumSizes(h, bs, k) ==
    IF k > Len(bs) THEN 0 ELSE get_size(h, bs[k]) + SumSizes(h, bs, k + 1)

\* the block before bs[k] on the implicit list: the prologue for the first
Before(h, bs, k) == IF k = 1 THEN Prologue(h) ELSE bs[k - 1]

\* the blocks of the walk and the epilogue it ends on, in order
WithEnd(h, bs) == Append(bs, EndOf(h, bs))

\* the upper bound of each bucket but the last, 99-156
Upper ==
    <<free_16, free_32, free_48, free_64, free_128, free_256, free_512,
      free_1024, free_2048, free_4096, free_8192, free_16384, free_32768>>

-----------------------------------------------------------------------------
(* The claims *)

InsideHeap(h, b) ==
    /\ get_size(h, b) >= min_block_size
    /\ b >= h.hs
    /\ b + get_size(h, b) <= LastWord(h)

Apart(h, b, c) == b + get_size(h, b) <= c \/ c + get_size(h, c) <= b

LiveDisjoint(h, ps) ==
    /\ \A p \in ps : /\ get_alloc(h, payload_to_header(p), FALSE)
                     /\ InsideHeap(h, payload_to_header(p))
    /\ \A p \in ps : \A q \in ps \ {p} :
          Apart(h, payload_to_header(p), payload_to_header(q))

(* C1: the blocks behind the pointers returned and not yet released are    *)
(* allocated, pairwise disjoint and lie between the prologue and the       *)
(* epilogue, and no call has returned a pointer that was still held.       *)
C1_LiveDisjoint == LiveDisjoint(Heap, live) /\ ~reissued

BucketIffFree(h, bs, bk) == \A b \in Range(bs) : OnBucket(bk, b) <=> IsFree(h, b)

(* C2: a block of the implicit list is a member of some bucket if and only *)
(* if its self-allocated bit is false.                                     *)
C2_BucketIffFree == Initialised => BucketIffFree(Heap, Blocks(Heap), Buckets(Heap))

(* C3: the number of free blocks on the implicit list equals the sum over  *)
(* the 14 buckets of the number of members of each bucket.                 *)
C3_FreeCountMatches ==
    Initialised =>
        Cardinality(FreeBlocks(Heap, Blocks(Heap))) = SumCard(Buckets(Heap), 0)

NoFreePair(h, bs) ==
    \A k \in 1 .. Len(bs) - 1 : ~(IsFree(h, bs[k]) /\ IsFree(h, bs[k + 1]))

(* C4: no two neighbours on the implicit list are both free.               *)
C4_NoAdjacentFree == Initialised => NoFreePair(Heap, Blocks(Heap))

PrevAllocCoherent(h, bs) ==
    \A k \in 1 .. Len(bs) :
        get_prev_alloc(h, bs[k]) = get_alloc(h, Before(h, bs, k), FALSE)

(* C5: bit 1 of the header of every block and of the epilogue equals bit 0 *)
(* of the block before it, the prologue for the first block.               *)
C5_PrevAllocCoherent ==
    Initialised => PrevAllocCoherent(Heap, WithEnd(Heap, Blocks(Heap)))

PrevMinCoherent(h, bs, from) ==
    \A k \in from .. Len(bs) :
        is_minblock(h, bs[k])
            <=> (get_size(h, Before(h, bs, k)) = min_block_size)

(* C6: bit 2 of the header of every block, the first included, and of the  *)
(* epilogue is set exactly when the block before it has size 16.           *)
C6_PrevMinCoherent ==
    Initialised => PrevMinCoherent(Heap, WithEnd(Heap, Blocks(Heap)), 1)

InRange(h, bk) ==
    /\ \A b \in bk[0] : get_size(h, b) = free_16
    /\ \A i \in 1 .. free_size - 1 : \A b \in bk[i] :
          /\ get_size(h, b) > Upper[i]
          /\ i < free_size - 1 => get_size(h, b) <= Upper[i + 1]

(* C7: every member of bucket 0 has size 16; every member of bucket i in   *)
(* 1..13 is larger than the upper bound of bucket i-1 and no larger than   *)
(* that of bucket i, bucket 13 having none.                                *)
C7_BucketRanges == Initialised => InRange(Heap, Buckets(Heap))

FootersMatch(h, bs) ==
    \A b \in Range(bs) :
        (IsFree(h, b) /\ get_size(h, b) > min_block_size)
            => Rd(h, header_to_footer(h, b)) = Rd(h, b)

(* C8: the footer word of every free block larger than 16 equals its       *)
(* header word.                                                            *)
C8_FooterEqualsHeader == Initialised => FootersMatch(Heap, Blocks(Heap))

Circular(h, ms, head) ==
    /\ \A x \in ms : /\ Rd(h, find_next_free(h, x) + PrevOff) = x
                     /\ Rd(h, Rd(h, x + PrevOff) + NextOff) = x
                     /\ Rd(h, x + PrevOff) \in ms
    /\ ms # {} => \E x \in ms : find_next_free(h, x) = head

\* following next from b reaches a block whose next is itself before it
\* reaches a block of seen
RECURSIVE EndsInSelfLoop(_, _, _)
EndsInSelfLoop(h, b, seen) ==
    IF b = NULL \/ b \in seen THEN FALSE
    ELSE IF find_next_free(h, b) = b THEN TRUE
    ELSE EndsInSelfLoop(h, find_next_free(h, b), seen \cup {b})

ListsCoherent(h, bk) ==
    /\ \A i \in 1 .. free_size - 1 : Circular(h, bk[i], h.fl[i])
    /\ h.fl[0] # NULL => EndsInSelfLoop(h, h.fl[0], {})

(* C9: every non-empty bucket 1..13 is a circular doubly linked list with  *)
(* x.next.prev = x and x.prev.next = x for every member x, and following   *)
(* next from the head of bucket 0 reaches a block whose next is itself     *)
(* without visiting a block twice.                                         *)
C9_ListsCoherent == Initialised => ListsCoherent(Heap, Buckets(Heap))

\* the size field of a header as stored, bit 3 included
RawSize(h, b) == Rd(h, b) - (Rd(h, b) % 8)

WalkCoversHeap(h, bs) ==
    /\ \A b \in Range(bs) : /\ RawSize(h, b) % dsize = 0
                            /\ RawSize(h, b) >= min_block_size
    /\ EndOf(h, bs) = LastWord(h)
    /\ RawSize(h, EndOf(h, bs)) = 0
    /\ get_alloc(h, EndOf(h, bs), FALSE)
    /\ SumSizes(h, bs, 1) = (h.brk - HeapLo) - 2 * wsize

(* C10: the walk from the first block visits only blocks whose size is a   *)
(* multiple of 16 and at least 16, ends on a size-0 allocated epilogue in  *)
(* the last 8 bytes of the heap, and the sizes sum to the heap size less   *)
(* the 16 bytes of prologue and epilogue.                                  *)
C10_WalkCoversHeap == Initialised => WalkCoversHeap(Heap, Blocks(Heap))

-----------------------------------------------------------------------------
(* States in which the claims have something to say *)

\* two held blocks with a released block between them
FreeBetweenLive(h, ps, fs) ==
    \E p \in ps : \E q \in ps : \E b \in fs :
        payload_to_header(p) < b /\ b < payload_to_header(q)

C1_witness ==
    Initialised /\ FreeBetweenLive(Heap, live, FreeBlocks(Heap, Blocks(Heap)))

\* the heap was extended and every block released since: one free block
\* holds the two chunks
OneFreeBlock(h, bs) ==
    Len(bs) = 1 /\ IsFree(h, bs[1]) /\ get_size(h, bs[1]) = 2 * chunksize

C4_witness == Initialised /\ OneFreeBlock(Heap, Blocks(Heap))

\* an allocated block after a free one, and an allocated last block
FreeThenAllocated(h, bs) ==
    /\ \E k \in 2 .. Len(bs) : ~IsFree(h, bs[k]) /\ ~get_prev_alloc(h, bs[k])
    /\ get_prev_alloc(h, EndOf(h, bs))

C5_witness == Initialised /\ FreeThenAllocated(Heap, Blocks(Heap))

C7_witness ==
    /\ Initialised
    /\ free_list_start[0] # NULL
    /\ \E i \in 1 .. 8 : free_list_start[i] # NULL
    /\ \E i \in 9 .. free_size - 1 : free_list_start[i] # NULL

\* a free block with a footer, behind a held block of size 16: its header
\* and footer carry bit 2
FooterWithMinBit(h, bs) ==
    \E k \in 2 .. Len(bs) :
        /\ IsFree(h, bs[k]) /\ get_size(h, bs[k]) > min_block_size
        /\ is_minblock(h, bs[k])
        /\ get_size(h, bs[k - 1]) = min_block_size

C8_witness == Initialised /\ FooterWithMinBit(Heap, Blocks(Heap))

C9_witness ==
    Initialised /\ \E i \in 1 .. free_size - 1 : Cardinality(Buckets(Heap)[i]) >= 2

\* an extended heap holding blocks of size 16 and larger, free and held
C10_witness ==
    /\ mem_brk > HeapLo + 2 * wsize + chunksize
    /\ Len(Blocks(Heap)) >= 3
    /\ FreeBlocks(Heap, Blocks(Heap)) # {}
    /\ live # {}

-----------------------------------------------------------------------------
(* C12 *)

\* init has run and its chunk was granted
InitDone == heap_start # NULL /\ mem_brk >= HeapLo + 2 * wsize + chunksize

\* the bucket whose range holds size, read off the bounds
BucketOf(size) ==
    IF \E i \in DOMAIN Upper : size <= Upper[i]
    THEN (CHOOSE i \in DOMAIN Upper :
            size <= Upper[i] /\ \A k \in 1 .. i - 1 : size > Upper[k]) - 1
    ELSE free_size - 1

OneBlockHeap(h, bs, bk) ==
    /\ Len(bs) = 1
    /\ bs[1] = h.hs
    /\ IsFree(h, bs[1])
    /\ get_size(h, bs[1]) = (h.brk - HeapLo) - 2 * wsize
    /\ EndOf(h, bs) = LastWord(h)
    /\ \A i \in DOMAIN bk :
          bk[i] = IF i = BucketOf(get_size(h, bs[1])) THEN {bs[1]} ELSE {}
    /\ ~get_prev_alloc(h, LastWord(h))

(* C12: once every pointer returned has been released, the heap holds one  *)
(* block between prologue and epilogue: it is free, spans the heap, is the *)
(* only member of the bucket for its size, the other buckets are empty and *)
(* the epilogue's bit 1 is clear.                                          *)
C12_AllReleasedOneBlock ==
    (InitDone /\ live = {}) => OneBlockHeap(Heap, Blocks(Heap), Buckets(Heap))

\* every pointer was released again after the heap had to be extended
C12_witness == InitDone /\ live = {} /\ mem_brk > HeapLo + 2 * wsize + chunksize

-----------------------------------------------------------------------------
(* C20 *)

(* C20: after init and after every later operation the prologue word is    *)
(* size 0 with bit 1 (previous allocated), bit 0 (allocated) and bit 2     *)
(* (previous is a minimum block) all set.                                  *)
C20_PrologueAllSet ==
    Initialised => Rd(Heap, Prologue(Heap)) = pack(0, TRUE, TRUE, TRUE)

(* C20 as the code has it: the prologue word is size 0 with bit 1 clear    *)
(* and bits 0 and 2 set, after init and after every later operation.       *)
C20_PrologueWord ==
    Initialised => Rd(Heap, Prologue(Heap)) = pack(0, FALSE, TRUE, TRUE)

\* the prologue of a heap that has served allocations and releases
C20_witness ==
    /\ InitDone /\ calls >= 4 /\ live # {}
    /\ Rd(Heap, Prologue(Heap)) = alloc_mask_curr + min_mask

-----------------------------------------------------------------------------
(* C16 *)

\* the step is a public call of op
Called(op) == calls' = calls + 1 /\ lastop'.op = op

\* the step leaves every word of the heap, every bucket head, heap_start
\* and the size of the heap as they were
SameHeap ==
    /\ mem' = mem
    /\ free_list_start' = free_list_start
    /\ heap_start' = heap_start
    /\ mem_brk' = mem_brk

(* C16: on an initialised heap malloc(0) returns NULL and free(NULL)       *)
(* returns, and each leaves every header, footer, link, bucket head and    *)
(* the heap size unchanged.                                                *)
C16_NullCallsNoOp ==
    [][(Initialised /\ (\/ Called("malloc") /\ lastop'.n = 0
                        \/ Called("free") /\ lastop'.p = NULL))
          => (ret' = NULL /\ SameHeap /\ live' = live)]_vars

\* malloc(0) was called while the caller held a block
C16_witness ==
    lastop.op = "malloc" /\ lastop.n = 0 /\ ret = NULL /\ live # {}

-----------------------------------------------------------------------------
(* C18 *)

(* C18: every non-null pointer returned by malloc, realloc or calloc is a  *)
(* multiple of 16 (the provider's first address, HeapLo, is one).          *)
C18_PayloadAligned ==
    (HeapLo % dsize = 0 /\ ret # NULL
        /\ lastop.op \in {"malloc", "realloc", "calloc"}) => ret % dsize = 0

\* realloc moved a held block to a new payload
C18_witness ==
    /\ lastop.op = "realloc" /\ lastop.p # NULL
    /\ ret # NULL /\ ret # lastop.p

-----------------------------------------------------------------------------
(* C19 *)

\* the heap a successful init leaves on a fresh provider
FreshHeap(h, bs, bk) ==
    /\ h.brk - HeapLo = 2 * wsize + chunksize
    /\ Prologue(h) = HeapLo
    /\ get_size(h, Prologue(h)) = 0 /\ get_alloc(h, Prologue(h), FALSE)
    /\ bs = <<h.hs>>
    /\ get_size(h, h.hs) = chunksize
    /\ IsFree(h, h.hs)
    /\ get_prev_alloc(h, h.hs)
    /\ EndOf(h, bs) = LastWord(h)
    /\ get_size(h, LastWord(h)) = 0
    /\ get_alloc(h, LastWord(h), FALSE)
    /\ ~get_prev_alloc(h, LastWord(h))
    /\ \A i \in DOMAIN bk : bk[i] = IF i = 9 THEN {h.hs} ELSE {}

(* C19: init on a fresh provider returns false exactly when the provider   *)
(* refuses the 16 bytes of the sentinels or the 4096 bytes of the first    *)
(* chunk; when it returns true the heap is 16 + 4096 bytes: the prologue,  *)
(* one free block of 4096 bytes with bit 1 set, and the epilogue with bit  *)
(* 1 clear; bucket 9 holds that block and the other 13 buckets are empty.  *)
C19_InitHeap ==
    lastop.op = "mm_init" =>
        /\ (ret = 0) <=> (mem_max_addr < HeapLo + 2 * wsize + chunksize)
        /\ (ret # 0) => FreshHeap(Heap, Blocks(Heap), Buckets(Heap))

\* init succeeded
C19_witness == lastop.op = "mm_init" /\ ret = 1 /\ calls = 1

-----------------------------------------------------------------------------
(* C14 *)

\* the step is realloc(p, size) with p non-null and size > 0
Resized == Called("realloc") /\ lastop'.p # NULL /\ lastop'.n > 0

\* the block of payload bp is allocated and has the same size in g as in h
StillHeld(h, g, bp) ==
    /\ get_alloc(g, payload_to_header(bp), FALSE)
    /\ get_size(g, payload_to_header(bp)) = get_size(h, payload_to_header(bp))
    /\ \A a \in WordsOf(bp, get_payload_size(h, payload_to_header(bp))) :
          (a \in DOMAIN h.mem) => (a \in DOMAIN g.mem /\ g.mem[a] = h.mem[a])

(* C14: when realloc(p, size), p non-null and size > 0, returns NULL, the  *)
(* block of p is still allocated with the same size and payload, and no    *)
(* header, footer, link or bucket head differs.                            *)
C14_FailedReallocKeeps ==
    [][(Resized /\ ret' = NULL)
          => (StillHeld(Heap, Heap', lastop'.p) /\ SameHeap /\ live' = live)]_vars

\* realloc of a held block was refused after the caller had stored in it
C14_witness ==
    /\ lastop.op = "realloc" /\ lastop.p \in live /\ lastop.n > 0 /\ ret = NULL
    /\ lastop.p \in DOMAIN mem

-----------------------------------------------------------------------------
(* C15 *)

Min(a, b) == IF a < b THEN a ELSE b

\* the first n bytes at q in g are the first n bytes at p in h, for the
\* words of p that were written
SameBytes(h, g, p, q, n) ==
    \A a \in WordsOf(p, n) :
        (a \in DOMAIN h.mem) =>
            ((a - p) + q \in DOMAIN g.mem /\ g.mem[(a - p) + q] = h.mem[a])

\* block is free in g, or lies inside a free block of g
FreedIn(g, bs, block) ==
    \E b \in Range(bs) :
        IsFree(g, b) /\ b <= block /\ block < find_next(g, b)

Moved(h, g, p, q, size) ==
    /\ SameBytes(h, g, p, q,
                 Min(size, get_payload_size(h, payload_to_header(p))))
    /\ get_alloc(g, payload_to_header(q), FALSE)
    /\ payload_to_header(q) \in Range(Blocks(g))
    /\ FreedIn(g, Blocks(g), payload_to_header(p))

(* C15: when realloc(p, size), p non-null and size > 0, returns q non-null, *)
(* the first min(size, payload size of p's block) bytes at q equal the     *)
(* bytes at p when the call was made, the block of q is allocated and the  *)
(* block of p is free, possibly merged into a larger free block.           *)
C15_ReallocMoves ==
    [][(Resized /\ ret' # NULL)
          => Moved(Heap, Heap', lastop'.p, ret', lastop'.n)]_vars

\* realloc returned a new payload that holds what the caller had stored
C15_witness ==
    /\ lastop.op = "realloc" /\ lastop.p # NULL /\ lastop.n > 0
    /\ ret # NULL /\ ret \in DOMAIN mem

-----------------------------------------------------------------------------
(* C13 *)

\* the step is a malloc of size > 0 on an initialised heap that found no
\* block and was refused the extension: it returned NULL
Refused == Initialised /\ Called("malloc") /\ lastop'.n > 0 /\ ret' = NULL

\* the step releases a held pointer right after a malloc was refused
ReleaseAfterRefusal ==
    /\ lastop.op = "malloc" /\ lastop.n > 0 /\ ret = NULL
    /\ Called("free") /\ lastop'.p \in live

\* the invariants of the data model
DataModel ==
    /\ C1_LiveDisjoint /\ C2_BucketIffFree /\ C3_FreeCountMatches
    /\ C4_NoAdjacentFree /\ C5_PrevAllocCoherent /\ C6_PrevMinCoherent
    /\ C7_BucketRanges /\ C8_FooterEqualsHeader /\ C9_ListsCoherent
    /\ C10_WalkCoversHeap

\* a refused malloc leaves the heap as it was
RefusalFrame == [][Refused => (SameHeap /\ live' = live)]_vars

(* C13: a malloc that finds no block and is refused the extension returns  *)
(* NULL and leaves every header, footer, link, bucket head and the heap    *)
(* size as before, and a later release of a pointer returned earlier       *)
(* still restores all invariants of the data model.                        *)
C13_RefusalHarmless ==
    [][/\ Refused => (SameHeap /\ live' = live)
       /\ ReleaseAfterRefusal => DataModel']_vars

-----------------------------------------------------------------------------
(* C11 *)

(* C11: for every request of 1 byte or more, up to the largest size_t,     *)
(* malloc returns NULL or the payload of a block whose size is at least    *)
(* the request plus the 8 bytes of the header, and never below 16.         *)
C11_BlockHoldsRequest ==
    (lastop.op = "malloc" /\ lastop.n >= 1 /\ ret # NULL)
        => /\ get_size(Heap, payload_to_header(ret)) >= lastop.n + wsize
           /\ get_size(Heap, payload_to_header(ret)) >= min_block_size

-----------------------------------------------------------------------------
(* C17 *)

\* elements * size, as a number, does not fit the machine word
Overflows(elements, size) == size > (WordMod - 1) \div elements

\* the words of g outside the payload at bp of n bytes
Outside(g, bp, n) ==
    [a \in DOMAIN g.mem \ (IF bp = NULL THEN {} ELSE WordsOf(bp, n))
        |-> g.mem[a]]

\* g and r are what malloc(n) leaves of h and returns, but for the bytes
\* of the payload, which are zero
AsMalloc(h, g, r, c, n) ==
    /\ r = c.r
    /\ g.fl = c.h.fl /\ g.hs = c.h.hs /\ g.brk = c.h.brk
    /\ Outside(g, r, n) = Outside(Forget(c.h, TRUE, c.r, {}), r, n)
    /\ r # NULL => \A a \in WordsOf(r, n) : a \in DOMAIN g.mem /\ g.mem[a] = 0

(* C17: calloc(n, size) with n >= 1 returns NULL without changing the heap *)
(* whenever n * size, as a number, is WordMod (2^64) or more; otherwise it *)
(* asks malloc for exactly n * size bytes.                                 *)
C17_CallocProduct ==
    [][(Called("calloc") /\ lastop'.m >= 1)
          => IF Overflows(lastop'.m, lastop'.n)
             THEN ret' = NULL /\ SameHeap /\ live' = live
             ELSE AsMalloc(Heap, Heap', ret',
                           malloc(Heap, lastop'.m * lastop'.n),
                           lastop'.m * lastop'.n)]_vars

\* calloc refused a product that wraps to a small count
C17_witness ==
    /\ lastop.op = "calloc" /\ lastop.m >= 1 /\ ret = NULL
    /\ Overflows(lastop.m, lastop.n)
    /\ MulMod(lastop.m, lastop.n) \in 1 .. chunksize
    /\ Initialised

-----------------------------------------------------------------------------
(* C21 *)

\* the members of a bucket in the order in which next links them from b on
RECURSIVE order(_, _, _)
order(h, b, seen) ==
    IF b = NULL \/ b \in seen THEN <<>>
    ELSE <<b>> \o order(h, find_next_free(h, b), seen \cup {b})

ListOf(h, i) == order(h, h.fl[i], {})

Without(s, b) == SelectSeq(s, LAMBDA x : x # b)

\* taking any member of bucket 0 off it leaves the others in their order
MiniRemovalKeeps(h, s) ==
    \A k \in 1 .. Len(s) :
        ListOf(clear_free_mini(h, s[k], 0), 0) = Without(s, s[k])

(* C21: removing a member b of bucket 0 leaves the bucket holding its      *)
(* previous members other than b in their previous order, whether b is     *)
(* the head, a middle block or the last block of a chain of two or more.   *)
C21_MiniRemoval ==
    Initialised => MiniRemovalKeeps(Heap, ListOf(Heap, 0))

\* the same for the members that are not the last of a chain of two or more
MiniRemovalButLast(h, s) ==
    \A k \in 1 .. Len(s) :
        (k < Len(s) \/ Len(s) = 1) =>
            ListOf(clear_free_mini(h, s[k], 0), 0) = Without(s, s[k])

C21_ButLast == Initialised => MiniRemovalButLast(Heap, ListOf(Heap, 0))

-----------------------------------------------------------------------------
(* C22 *)

\* g is h with member k of bucket i, whose members in order are s, removed
RemovedFrom(g, i, s, k) ==
    /\ ListOf(g, i) = Without(s, s[k])
    /\ Circular(g, Range(Without(s, s[k])), g.fl[i])
    /\ Len(s) = 1 => g.fl[i] = NULL
    /\ (k = 1 /\ Len(s) > 1) => g.fl[i] = s[2]
    /\ k > 1 => g.fl[i] = s[1]

BasicRemovalKeeps(h, i, s) ==
    \A k \in 1 .. Len(s) : RemovedFrom(clear_free_basic(h, s[k], i), i, s, k)

(* C22: removing a member b of a bucket 1..13 leaves the bucket holding    *)
(* its previous members other than b in their previous circular order;     *)
(* the head moves to b.next when b was the head and is cleared when b was  *)
(* the only member; for buckets of one, two and three or more members.     *)
C22_BasicRemoval ==
    Initialised =>
        \A i \in 1 .. free_size - 1 : BasicRemovalKeeps(Heap, i, ListOf(Heap, i))

\* a bucket 1..13 holds three or more blocks
C22_witness ==
    Initialised /\ \E i \in 1 .. free_size - 1 : Len(ListOf(Heap, i)) >= 3

-----------------------------------------------------------------------------
(* C23 *)

\* g is h with block b put on bucket i, whose members in order were s
InsertedInto(h, g, b, i, s) ==
    /\ g.fl[i] = b
    /\ ListOf(g, i) = <<b>> \o s
    /\ i > 0 => /\ Circular(g, Range(<<b>> \o s), b)
                /\ Rd(g, b + PrevOff) = (<<b>> \o s)[Len(s) + 1]
    /\ \A m \in DOMAIN h.fl \ {i} :
          g.fl[m] = h.fl[m] /\ ListOf(g, m) = ListOf(h, m)

InsertKeeps(h, bs) ==
    \A b \in Range(bs) :
        get_alloc(h, b, FALSE) =>
            InsertedInto(h, insert_free(h, b), b, BucketOf(get_size(h, b)),
                         ListOf(h, BucketOf(get_size(h, b))))

-----------------------------------------------------------------------------
(* C24 *)

\* the adjusted sizes asked of find_fit
Asizes == {dsize * k : k \in 1 .. 18} \cup {chunksize - 4 * dsize, chunksize}

\* r, when a block, is a free member of a bucket of h and holds asize bytes
FitSound(h, bk, asize, r) ==
    r # NULL => /\ OnBucket(bk, r)
                /\ IsFree(h, r)
                /\ get_size(h, r) >= asize

(* C24: whenever find_fit(asize) returns a block, the block is a member of *)
(* a bucket, its self-allocated bit is false and its size is at least      *)
(* asize, also when the head of the scanned bucket is smaller than asize.  *)
C24_FitSound ==
    Initialised =>
        \A asize \in Asizes :
            FitSound(Heap, Buckets(Heap), asize, find_fit(Heap, asize))

\* find_fit returns a block of a bucket whose head is smaller than asize
C24_witness ==
    /\ Initialised
    /\ \E asize \in Asizes :
          /\ free_list_start[get_free_list(asize)] # NULL
          /\ get_size(Heap, free_list_start[get_free_list(asize)]) < asize
          /\ find_fit(Heap, asize)
                \in Range(ListOf(Heap, get_free_list(asize)))

-----------------------------------------------------------------------------
(* C25 *)

\* the first n members of s
FirstOf(s, n) == {s[k] : k \in 1 .. Min(n, Len(s))}

\* the scan of the bucket with members s returns one of them when one of
\* the first searchtime fits
ScanFinds(h, asize, s, r) ==
    (\E b \in FirstOf(s, searchtime) : get_size(h, b) >= asize)
        => r \in Range(s)

(* C25: in the scan of one bucket by find_fit, if one of the first 16      *)
(* blocks from the head, the head included, has size at least asize, the   *)
(* scan returns a block of that bucket instead of going on to the next,    *)
(* also when the head is smaller than asize and no block has slack of 16   *)
(* or less.                                                                *)
C25_ScanFinds ==
    Initialised =>
        \A asize \in Asizes :
            \A i \in get_free_list(asize) .. free_size - 1 :
                ScanFinds(Heap, asize, ListOf(Heap, i),
                          find_fit_basic(Heap, asize, free_list_start[i]))

\* the same when the head of the bucket holds asize bytes
ScanFindsFromHead(h, asize, s, r) ==
    (s # <<>> /\ get_size(h, s[1]) >= asize) => r \in Range(s)

C25_HeadFits ==
    Initialised =>
        \A asize \in Asizes :
            \A i \in get_free_list(asize) .. free_size - 1 :
                ScanFindsFromHead(Heap, asize, ListOf(Heap, i),
                                  find_fit_basic(Heap, asize, free_list_start[i]))

-----------------------------------------------------------------------------
(* C26 *)

(* C26: for every bucket and every asize, find_fit reads the size of at    *)
(* most 16 blocks of the bucket, the head included, before it returns a    *)
(* block or moves to the next bucket, however long the bucket is and       *)
(* whether or not the head fits.                                           *)
C26_ScanLimit ==
    Initialised =>
        \A asize \in Asizes :
            \A i \in get_free_list(asize) .. free_size - 1 :
                fit_reads(Heap, asize, free_list_start[i]) <= searchtime

-----------------------------------------------------------------------------
(* C27 *)

Slack(h, asize, b) == get_size(h, b) - asize

NearFit(h, asize, b) == get_size(h, b) >= asize /\ Slack(h, asize, b) <= free_16

\* the position of b in s
IndexOf(s, b) == CHOOSE k \in 1 .. Len(s) : s[k] = b

\* r is the first near fit of s in scan order, or no block of the first
\* n of s is a near fit and none of them that fits has less slack than r
BestOf(h, asize, s, n, r) ==
    \/ /\ NearFit(h, asize, r)
       /\ \A k \in 1 .. IndexOf(s, r) - 1 : ~NearFit(h, asize, s[k])
    \/ /\ \A b \in FirstOf(s, n) : ~NearFit(h, asize, b)
       /\ \A b \in FirstOf(s, n) :
             get_size(h, b) >= asize => Slack(h, asize, b) >= Slack(h, asize, r)

\* the blocks examined are those whose size the scan has read
ScanPicksBest(h, asize, s, r, reads) ==
    r \in Range(s) => BestOf(h, asize, s, reads, r)

(* C27: when find_fit returns a block b of a bucket, either b has slack of *)
(* 16 or less and is the first such block in scan order from the head, or  *)
(* no block examined in that bucket has slack of 16 or less and no         *)
(* examined block of size at least asize has smaller slack than b.         *)
C27_ScanPicksBest ==
    Initialised =>
        \A asize \in Asizes :
            \A i \in get_free_list(asize) .. free_size - 1 :
                ScanPicksBest(Heap, asize, ListOf(Heap, i),
                              find_fit_basic(Heap, asize, free_list_start[i]),
                              fit_reads(Heap, asize, free_list_start[i]))

\* the same with the block read when times reaches searchtime left out
C27_BeforeLimit ==
    Initialised =>
        \A asize \in Asizes :
            \A i \in get_free_list(asize) .. free_size - 1 :
                ScanPicksBest(Heap, asize, ListOf(Heap, i),
                              find_fit_basic(Heap, asize, free_list_start[i]),
                              Min(fit_reads(Heap, asize, free_list_start[i]),
                                  searchtime + 1))

-----------------------------------------------------------------------------
(* C28 *)

\* g has the words, the bucket heads and the extent of h
SameState(h, g) ==
    /\ g.mem = h.mem /\ g.fl = h.fl
    /\ g.hs = h.hs /\ g.brk = h.brk /\ g.fault = h.fault

-----------------------------------------------------------------------------
(* C29 *)

\* the heap malloc searches: h, initialised first when it is not yet
Searched(h) == IF h.hs = NULL THEN mm_init(h).h ELSE h

\* the size of the block e.r of e.h
SizeIn(e) == get_size(e.h, e.r)

\* the size of the free block malloc places asize bytes in: the block
\* find_fit returns, or the block the extension of the heap gives
Chosen(h, asize) ==
    IF find_fit(h, asize) # NULL THEN get_size(h, find_fit(h, asize))
    ELSE SizeIn(extend_heap(h, max(asize, chunksize)))

\* in g the block b is allocated with asize bytes, and what a chosen
\* block of S bytes had in excess is a free block right after b, a
\* member of the bucket for its size
SplitOff(g, b, asize, S) ==
    /\ get_alloc(g, b, FALSE)
    /\ get_size(g, b) = asize
    /\ S > asize =>
          /\ S - asize >= min_block_size
          /\ IsFree(g, b + asize)
          /\ get_size(g, b + asize) = S - asize
          /\ b + asize \in Range(ListOf(g, BucketOf(S - asize)))

InnerExcess(h, b) ==
    /\ IsFree(h, find_next(h, b))
    /\ get_size(h, find_next(h, find_next(h, b))) > 0
    /\ get_alloc(h, find_next(h, find_next(h, b)), FALSE)

-----------------------------------------------------------------------------
(* C30 *)

\* the heap coalesce_block is given by free(bp), mm.c:1589-1593
Released(h, block) ==
    modify_after(
      alloc2free(h, block, get_size(h, block), get_prev_alloc(h, block),
                 FALSE),
      block, FALSE, get_size(h, block) = min_block_size)

\* the heap coalesce_block is given by extend_heap once the provider
\* granted size bytes at bp, mm.c:877-887
Extended(h, block, size) ==
    epilogue_after(
      alloc2free(h, block, size, get_prev_alloc(h, block), FALSE), block)

\* the assertions of coalesce_block hold in every call free can make on a
\* block in use and in the call an extension of the heap makes
MergeAsserts(h, ps) ==
    /\ \A bp \in ps :
          coalesce_asserts(Released(h, payload_to_header(bp)),
                           payload_to_header(bp))
    /\ coalesce_asserts(Extended(h, LastWord(h), chunksize), LastWord(h))

(* C30: whenever coalesce_block merges a released block into its free     *)
(* predecessor p (cases 1 and 2), the prev-allocated bit of p is set, so  *)
(* dbg_assert(prev_alloc == 1) at mm.c:816 and 831 holds in every         *)
(* reachable state.                                                        *)
C30_PredecessorBit == Initialised => MergeAsserts(Heap, live)

\* block lies inside a larger free block of h that starts before it
MergedBack(h, block) ==
    \E k \in DOMAIN Blocks(h) :
        /\ IsFree(h, Blocks(h)[k])
        /\ Blocks(h)[k] < block
        /\ block < find_next(h, Blocks(h)[k])

\* the last call released a block that was merged into its predecessor,
\* and a block in use has a free predecessor
C30_witness ==
    /\ lastop.op = "free"
    /\ lastop.p # NULL
    /\ MergedBack(Heap, payload_to_header(lastop.p))
    /\ \E bp \in live : ~get_prev_alloc(Heap, payload_to_header(bp))

-----------------------------------------------------------------------------
(* C31 *)

\* every search find_fit can be asked for in h returns, and so does the
\* removal of every free block of the minimum size
LoopsEnd(h, bs) ==
    /\ \A asize \in Asizes : find_fit_ends(h, asize)
    /\ \A k \in DOMAIN bs :
          (IsFree(h, bs[k]) /\ get_size(h, bs[k]) = min_block_size)
              => clear_free_mini_ends(h, bs[k], 0)

(* C31: every call of malloc, free, realloc and calloc terminates in every *)
(* reachable state: the walk over bucket 0 in clear_free_mini and the scan *)
(* loop of find_fit_basic over each bucket always reach their end          *)
(* condition; no walk made inside a call has run out of the heap.          *)
C31_LoopsEnd ==
    /\ fault = FALSE
    /\ Initialised => LoopsEnd(Heap, Blocks(Heap))

\* bucket 0 holds a chain of two or more blocks and a bucket scanned for
\* some request has a head too small for it
C31_witness ==
    /\ Initialised
    /\ Len(ListOf(Heap, 0)) >= 2
    /\ \E asize \in Asizes :
          /\ Heap.fl[get_free_list(asize)] # NULL
          /\ get_size(Heap, Heap.fl[get_free_list(asize)]) < asize

-----------------------------------------------------------------------------
(* C32 *)

\* h with bit 2 of the word at a cleared
ClearMin(h, a) == IF Bit(Rd(h, a), 2) = 1 THEN Wr(h, a, Rd(h, a) - 4) ELSE h

\* h with the prev-is-min bit of its first block as invariant 3 asks for
\* it: the block before the first block is the prologue, of size 0
FirstBitRight(h) ==
    IF IsFree(h, h.hs) /\ get_size(h, h.hs) > min_block_size
    THEN ClearMin(ClearMin(h, header_to_footer(h, h.hs)), h.hs)
    ELSE ClearMin(h, h.hs)

\* the eight invariants of the data model, of the heap h with the blocks
\* bs and the buckets bk
EightInvariants(h, bs, bk) ==
    /\ WalkCoversHeap(h, bs)
    /\ PrevAllocCoherent(h, WithEnd(h, bs))
    /\ PrevMinCoherent(h, WithEnd(h, bs), 1)
    /\ NoFreePair(h, bs)
    /\ BucketIffFree(h, bs, bk)
    /\ InRange(h, bk)
    /\ FootersMatch(h, bs)
    /\ ListsCoherent(h, bk)

Sound(h) == EightInvariants(h, Blocks(h), Buckets(h))

(* C32: on every heap state that satisfies the eight invariants of the     *)
(* data model mm_checkheap returns true: the buckets are counted member by *)
(* member, bucket 0 with two or more blocks included, and the count equals *)
(* the number of free blocks of the implicit walk.                         *)
C32_CheckAccepts ==
    (Initialised /\ Sound(FirstBitRight(Heap)))
        => mm_checkheap(FirstBitRight(Heap))

\* the same for the heaps whose bucket 0 holds at most one block
C32_ShortBucket ==
    (Initialised /\ Sound(FirstBitRight(Heap))
       /\ Cardinality(Buckets(Heap)[0]) <= 1)
        => mm_checkheap(FirstBitRight(Heap))

\* mm_checkheap returns false on every sound heap whose bucket 0 holds two
\* blocks or more, and the same with or without the bit of the first block
C32_LongBucket ==
    (Initialised /\ Sound(FirstBitRight(Heap)))
        => /\ Cardinality(Buckets(Heap)[0]) >= 2
                => ~mm_checkheap(FirstBitRight(Heap))
           /\ mm_checkheap(Heap) = mm_checkheap(FirstBitRight(Heap))

-----------------------------------------------------------------------------
(* C33 *)

\* following next from the head of bucket i meets every member once: the
\* last block met leads back to the head, or in bucket 0 to itself
MetOnce(h, i, s) ==
    s # <<>> =>
        find_next_free(h, s[Len(s)]) = (IF i = 0 THEN s[Len(s)] ELSE h.fl[i])

\* every member of a bucket is a free block of the walk bs, on one bucket
\* only and once
MembersFree(h, bs, bk) ==
    /\ \A i \in DOMAIN bk : \A b \in bk[i] : b \in Range(bs) /\ IsFree(h, b)
    /\ \A i \in DOMAIN bk : \A j \in DOMAIN bk :
          i # j => bk[i] \cap bk[j] = {}
    /\ \A i \in DOMAIN bk : MetOnce(h, i, ListOf(h, i))

(* C33: after every public operation every member of a bucket is a block   *)
(* of the implicit list whose self-allocated bit is false, and no block is *)
(* a member of two buckets or appears twice in one bucket.                 *)
C33_MembersFree ==
    Initialised => MembersFree(Heap, Blocks(Heap), Buckets(Heap))

\* blocks are in use, one bucket holds two blocks or more and another
\* bucket is not empty
C33_witness ==
    /\ Initialised
    /\ live # {}
    /\ \E i \in 0 .. free_size - 1 : \E j \in 0 .. free_size - 1 :
          /\ i # j
          /\ Cardinality(Buckets(Heap)[i]) >= 2
          /\ Buckets(Heap)[j] # {}

-----------------------------------------------------------------------------
(* C34 *)

\* the words written in the payload of block, with what they hold
PayloadOf(h, block) ==
    [a \in {x \in DOMAIN h.mem :
              x > block /\ x < block + get_size(h, block)} |-> h.mem[a]]

\* g has the size, the self-allocated bit and the payload that block has
\* in h
BlockKept(h, g, block) ==
    /\ get_size(g, block) = get_size(h, block)
    /\ RawSize(g, block) = RawSize(h, block)
    /\ get_alloc(g, block, FALSE) = get_alloc(h, block, FALSE)
    /\ PayloadOf(g, block) = PayloadOf(h, block)

\* the step is a call or a store on the pointer bp
CalledOn(bp) == calls' = calls + 1 /\ lastop'.p = bp

(* C34: from the malloc that returns p until the release of p no call on   *)
(* other pointers changes the size or the self-allocated bit of the header *)
(* of p's block or writes a byte of p's payload; only the prev-allocated   *)
(* and prev-is-min bits of the header may change.                          *)
C34_HeldBlockKept ==
    [][\A bp \in live \cap live' :
          ~CalledOn(bp) => BlockKept(Heap, Heap', payload_to_header(bp))]_vars

\* the block of h that ends where block starts is free and holds the
\* address a
FreedBefore(h, bs, block, a) ==
    \E k \in DOMAIN bs :
        /\ IsFree(h, bs[k])
        /\ find_next(h, bs[k]) = block
        /\ bs[k] <= a /\ a < block

\* the last call released the block right before a block in use, whose
\* header lost its prev-allocated bit
C34_witness ==
    /\ lastop.op = "free"
    /\ lastop.p # NULL
    /\ \E bp \in live :
          /\ ~get_prev_alloc(Heap, payload_to_header(bp))
          /\ FreedBefore(Heap, Blocks(Heap), payload_to_header(bp),
                         payload_to_header(lastop.p))

-----------------------------------------------------------------------------
(* C35 *)

\* the call that gave c found its block in the heap h as it was
Reused(c, h) == c.r # NULL /\ c.h.brk = h.brk

\* the free block of h that holds the address a
HolderOf(h, bs, a) ==
    {bs[k] : k \in {x \in DOMAIN bs :
                      /\ IsFree(h, bs[x])
                      /\ bs[x] <= a /\ a < find_next(h, bs[x])}}

\* every request that fits the free block b of h is served from h as it is
FitsServed(h, b) ==
    \A asize \in Asizes :
        asize <= get_size(h, b) => Reused(malloc(h, asize - wsize), h)

(* C35: immediately after free(p) of a block of S bytes, a malloc(size)    *)
(* with round_up(size + 8, 16) <= S returns a pointer that is not NULL     *)
(* and does not extend the heap; the released block, merged or not, has S  *)
(* bytes or more.                                                          *)
C35_ReleasedServes ==
    (lastop.op = "free" /\ lastop.p # NULL) =>
        /\ HolderOf(Heap, Blocks(Heap), payload_to_header(lastop.p)) # {}
        /\ \A b \in HolderOf(Heap, Blocks(Heap), payload_to_header(lastop.p)) :
              FitsServed(Heap, b)

\* the block released last is not the head of a bucket whose head is too
\* small for a request that the released block can hold
C35_witness ==
    /\ lastop.op = "free" /\ lastop.p # NULL
    /\ \E b \in HolderOf(Heap, Blocks(Heap), payload_to_header(lastop.p)) :
          \E asize \in Asizes :
              /\ asize <= get_size(Heap, b)
              /\ Heap.fl[get_free_list(asize)] # NULL
              /\ Heap.fl[get_free_list(asize)] # b
              /\ get_size(Heap, Heap.fl[get_free_list(asize)]) < asize

-----------------------------------------------------------------------------
(* C36 *)

\* the heap split_block is given by malloc for the free block of h it
\* chose, mm.c:1546-1550: the block is off its bucket and marked allocated
Marked(h, block, asize) ==
    modify_after(
      free2alloc(h, block, get_size(h, block), get_prev_alloc(h, block),
                 TRUE),
      block, TRUE, asize = min_block_size)

\* g has the bucket heads of h and the links of every block on a bucket
\* of h
DirectoryKept(h, g, bk) ==
    /\ g.fl = h.fl
    /\ \A i \in DOMAIN bk : \A x \in bk[i] :
          /\ Rd(g, x + NextOff) = Rd(h, x + NextOff)
          /\ i > 0 => Rd(g, x + PrevOff) = Rd(h, x + PrevOff)

\* removing block from its bucket once more, as free2alloc does in
\* split_block, leaves the directory of h as it is
SecondRemovalIdle(h, block) ==
    DirectoryKept(h, clear_free(h, block), Buckets(h))

\* malloc splits the block find_fit returns for asize in h
Splits(h, asize) ==
    /\ find_fit(h, asize) # NULL
    /\ get_size(h, find_fit(h, asize)) - asize >= min_block_size

(* C36: in malloc the block find_fit chose is taken off its bucket twice   *)
(* when it is split, by malloc's free2alloc and again in split_block; the  *)
(* second removal reads the stale links of the block and changes no bucket *)
(* head and no link of a block still on a bucket, whether the bucket held  *)
(* one, two, or three or more members.                                     *)
C36_SecondRemoval ==
    Initialised =>
        \A asize \in Asizes :
            Splits(Heap, asize) =>
                SecondRemovalIdle(Marked(Heap, find_fit(Heap, asize), asize),
                                  find_fit(Heap, asize))

\* a request of asize is split off a block of h whose bucket has n members
\* (n or more when more holds)
SplitsIn(h, asize, n, more) ==
    /\ Splits(h, asize)
    /\ \E i \in 1 .. free_size - 1 :
          /\ find_fit(h, asize) \in Buckets(h)[i]
          /\ IF more THEN Cardinality(Buckets(h)[i]) >= n
                     ELSE Cardinality(Buckets(h)[i]) = n

\* one heap in which requests are split off a block alone on its bucket
\* and off a block of a bucket of three or more
C36_witness ==
    /\ Initialised
    /\ \E asize \in Asizes : SplitsIn(Heap, asize, 1, FALSE)
    /\ \E asize \in Asizes : SplitsIn(Heap, asize, 3, TRUE)

\* a heap in which a request is split off a block of a bucket of two
C36_pair == Initialised /\ \E asize \in Asizes : SplitsIn(Heap, asize, 2, FALSE)

====
